---- MODULE Spec2Model ----
(***************************************************************************)
(* Resumable batch ingestion pipeline of Basemap_PPL.                      *)
(*                                                                         *)
(* Two orchestrators share the design and are modelled side by side; the   *)
(* variable `variant` says which program a behaviour is a run of:          *)
(*   "generator" : basemap_generator.py          (process_tifs)            *)
(*   "original"  : basemap_generator_original.py (main)                    *)
(* A behaviour is a sequence of runs (processes) over the same item list   *)
(* and the same output directory: a run ends "done", "no_items" (the       *)
(* catalog gave nothing), "crashed" (an exception left the program),       *)
(* "exited" (sys.exit in the signal handler of the original) or "killed"   *)
(* (the process was killed), and Restart starts the next process, which    *)
(* reloads the progress file.                                              *)
(*                                                                         *)
(* Specifications:                                                         *)
(*   Spec         : runs of the two orchestrators                          *)
(*   SpecScenario : one run in which only the download of B is flaky       *)
(*   SpecStream   : one download attempt, chunk by chunk, with a clock     *)
(*   SpecGate     : usgs_test.py, the downloadFile threads and sema        *)
(***************************************************************************)
EXTENDS Integers, Sequences, FiniteSets, TLC

\* ---- bounds of the model
MaxItems == 2
ScenarioItems == 3
MaxFeatures == 3
MaxRuns == 2
MaxDownloads == 7
MaxChunks == 3
\* the stall timeout of download_with_timeout, in clock ticks
timeout == 2

\* ---- program constants
\* a retry budget of one attempt less
max_retries_short == 3 - 1
max_retries == 3
max_attempts == 3
maxthreads == 5

VARIABLES
    variant,        \* which program runs
    n_items,        \* number of urls the catalog holds for the polygon
    run,            \* number of the current process, 1..MaxRuns
    pc,             \* position of the process
    i,              \* enumerate(tif_urls, 1): index of the current item
    completed_urls, \* ProcessTracker.completed_urls (in memory)
    progress_file,  \* content of download_progress.json
    tmp_file,       \* content of download_progress.json.tmp
    fs,             \* files of the output directory: <<item, name>> -> content
    attempt,        \* loop variable of the download retry loop (0-based)
    ret,            \* value returned by download_tif / download_with_progress
    last,           \* outcome of the latest download attempt of this item
    sign_attempt,   \* loop variable of the signing retry loop (0-based)
    slept,          \* seconds of time.sleep after the latest failed attempt
    step,           \* index of the next stage in stage_chain
    nonzero,        \* stages of the current item that exited non-zero
    outcome,        \* per item of this run: pending/skipped/complete/failed
    calls,          \* kinds of external calls this run has made
    exc,            \* what raised the exception that ended the run
    killed_at,      \* pc at which the process was killed or signalled
    fileBefore,     \* progress_file on entry to mark_completed
    prevDone,       \* the previous run ended done with every item completed
    prevFile,       \* progress_file at the end of the previous run
    sema,           \* usgs_test: value of the semaphore sema
    th,             \* usgs_test: position of each downloadFile thread
    spawned,        \* usgs_test: len(threads), the threads started so far
    main_pc,        \* usgs_test: position of the main thread
    n_downloads,    \* usgs_test: number of urls of the 'available' list
    stream,         \* one streamed transfer: its position
    body,           \* number of chunks of the response body
    written,        \* chunks in the destination file, in file order
    dest_exists,    \* the destination file exists
    gap,            \* clock ticks since the last chunk was written
    cat_pc,         \* get_tif_urls: its position
    features,       \* get_tif_urls: the features of the catalog response
    all_urls,       \* get_tif_urls: the list it returns
    cmd,            \* run_command: what the external command does
    cmd_starts,     \* run_command: how often the command was started
    result,         \* run_command: what the call gave its caller
    dir,            \* usgs_test: files of naip_output/new, name -> content
    fname,          \* usgs_test: filename of each downloadFile thread
    processed_exists, \* usgs_test: the directory processed_dir exists
    tif_files,      \* usgs_test: the list main hands to the transform
    poll_attempt,   \* usgs_test: attempt of the polling loop of main
    urun            \* usgs_test: number of the current run of main

vars == <<variant, n_items, run, pc, i, completed_urls, progress_file, tmp_file, fs,
          attempt, ret, last, sign_attempt, slept, step, nonzero, outcome, calls,
          exc, killed_at, fileBefore, prevDone, prevFile,
          sema, th, spawned, main_pc, n_downloads,
          stream, body, written, dest_exists, gap,
          cat_pc, features, all_urls, cmd, cmd_starts, result,
          dir, fname, processed_exists, tif_files, poll_attempt, urun>>

pipelineVars == <<variant, n_items, run, pc, i, completed_urls, progress_file,
                  tmp_file, fs, attempt, ret, last, sign_attempt, slept, step,
                  nonzero, outcome, calls, exc, killed_at, fileBefore,
                  prevDone, prevFile>>
gateVars == <<sema, th, spawned, main_pc, n_downloads>>
streamVars == <<stream, body, written, dest_exists, gap>>
catalogVars == <<cat_pc, features, all_urls>>
runnerVars == <<cmd, cmd_starts, result>>
stagingVars == <<dir, fname, processed_exists, tif_files, poll_attempt, urun>>
otherVars == <<gateVars, streamVars, catalogVars, runnerVars, stagingVars>>
\* the steps of the download threads say nothing about stagingVars: a
\* specification joins them with what they do to the staging directory
notGate == <<pipelineVars, streamVars, catalogVars, runnerVars>>
notStream == <<pipelineVars, gateVars, catalogVars, runnerVars, stagingVars>>
notCatalog == <<pipelineVars, gateVars, streamVars, runnerVars, stagingVars>>
notRunner == <<pipelineVars, gateVars, streamVars, catalogVars, stagingVars>>

Variants == {"generator", "original"}

\* The work list: get_tif_urls returns each url once; urls are 1..n_items.
tif_urls == [k \in 1..n_items |-> k]
Urls == {tif_urls[k] : k \in 1..n_items}

\* item numbers that occur in some run
Items == 1..(IF MaxItems > ScenarioItems THEN MaxItems ELSE ScenarioItems)

\* ---- the progress file as JSON text
\* kind: "missing" (no file), "empty" (zero bytes), "truncated" (a strict
\* prefix of a JSON document), "list" (a JSON array, elems its elements),
\* "object" (a JSON object, elems its keys), "number" (a JSON number).
Missing == [kind |-> "missing", elems |-> <<>>]
Empty == [kind |-> "empty", elems |-> <<>>]
Truncated == [kind |-> "truncated", elems |-> <<>>]
Number == [kind |-> "number", elems |-> <<>>]
JsonList(s) == [kind |-> "list", elems |-> s]
JsonObject(s) == [kind |-> "object", elems |-> s]

Range(s) == {s[k] : k \in 1..Len(s)}

Min(S) == CHOOSE x \in S : \A y \in S : x <= y

RECURSIVE SetToList(_)
\* list(self.completed_urls): the elements of the set, each once
SetToList(S) == IF S = {} THEN <<>> ELSE <<Min(S)>> \o SetToList(S \ {Min(S)})

\* json.dump(list(self.completed_urls), f)
json_dump(S) == JsonList(SetToList(S))

\* json.load(f): the exception it raises, or the value it returns
json_load(f) ==
    IF f.kind \in {"empty", "truncated"}
    THEN [raised |-> "JSONDecodeError", value |-> f]
    ELSE [raised |-> "none", value |-> f]

\* set(value): iterating a list gives its elements, a dict its keys; a
\* number is not iterable
to_set(v) ==
    IF v.kind \in {"list", "object"}
    THEN [raised |-> "none", urls |-> Range(v.elems)]
    ELSE [raised |-> "TypeError", urls |-> {}]

load_progress_generator(f) ==
    IF f.kind = "missing" THEN [raised |-> "none", urls |-> {}]
    ELSE LET j == json_load(f) IN
         IF j.raised # "none" THEN [raised |-> j.raised, urls |-> {}]
         ELSE to_set(j.value)

load_progress_original(f) ==
    IF f.kind = "missing" THEN [raised |-> "none", urls |-> {}]
    ELSE LET j == json_load(f) IN
         IF j.raised = "JSONDecodeError" THEN [raised |-> "none", urls |-> {}]
         ELSE to_set(j.value)

\* a tracker that starts from an empty set whatever the file holds
load_progress_fresh(v, f) == [raised |-> "none", urls |-> {}]

load_progress(v, f) ==
    IF v = "generator" THEN load_progress_generator(f)
    ELSE load_progress_original(f)

\* a tracker that reports no url as completed
is_completed_never(url, completed) == FALSE

is_completed(url, completed) == url \in completed

\* ---- files of the output directory
Names == {"input", "corrected", "resampled", "temp", "final"}
\* a file is "absent", "empty" (zero bytes), "partial" or "full"
Paths == Items \X Names

\* the path the downloader writes: input_{i}.tif / temp_ky_{i}.tif
download_name(v) == IF v = "generator" THEN "input" ELSE "temp"
\* the intermediate staging files of an item
staging_names(v) ==
    IF v = "generator" THEN {"input", "corrected", "resampled"} ELSE {"temp"}

exists(f, k, n) == f[<<k, n>>] # "absent"
put(f, k, n, c) == [f EXCEPT ![<<k, n>>] = c]
remove_all(f, k, ns) ==
    [p \in Paths |-> IF p[1] = k /\ p[2] \in ns THEN "absent" ELSE f[p]]

Terminal == {"done", "no_items", "crashed", "killed", "exited"}

\* where main starts: the generator asks the catalog first and builds the
\* tracker inside process_tifs, the original builds the tracker first
entry(v) == IF v = "generator" THEN "catalog" ELSE "start"

\* exit status of a process that has ended
exit_status(p) ==
    CASE p \in {"done", "no_items", "exited"} -> 0
      [] p = "crashed" -> 1
      [] p = "killed" -> 137

\* what the progress file may hold when the first process starts
InitialFiles == {Missing, Empty, Truncated, Number, JsonObject(<<1>>)}

\* usgs_test module level: sema = threading.Semaphore(value=maxthreads),
\* threads = []; the downloads of a run are threads 1..MaxDownloads
Threads == 1..MaxDownloads

GateIdle ==
    /\ sema = maxthreads
    /\ th = [t \in Threads |-> "unstarted"]
    /\ spawned = 0
    /\ main_pc = "download"

PipelineIdle ==
    /\ run = 1
    /\ pc = entry(variant)
    /\ i = 1
    /\ completed_urls = {}
    /\ tmp_file = Missing
    /\ fs = [p \in Paths |-> "absent"]
    /\ attempt = 0
    /\ ret = "unset"
    /\ last = "none"
    /\ sign_attempt = 0
    /\ slept = 0
    /\ step = 1
    /\ nonzero = {}
    /\ outcome = [k \in Items |-> "pending"]
    /\ calls = {}
    /\ exc = "none"
    /\ killed_at = "none"
    /\ fileBefore = Missing
    /\ prevDone = FALSE
    /\ prevFile = Missing

\* no transfer has been started
StreamIdle ==
    /\ stream = "idle"
    /\ body = 0
    /\ written = <<>>
    /\ dest_exists = FALSE
    /\ gap = 0

\* get_tif_urls is not looked into: an empty response, nothing returned yet
CatalogIdle ==
    /\ cat_pc = "search"
    /\ features = <<>>
    /\ all_urls = <<>>

\* no command is looked into
RunnerIdle ==
    /\ cmd = [kind |-> "none", status |-> 0]
    /\ cmd_starts = 0
    /\ result = [kind |-> "none", returncode |-> 0]

\* usgs_test: names a file of the staging directory can have; the archive
\* a.zip holds the image a.tif
FileNames == {"a.tif", "b.tif", "a.zip"}
TifNames == {"a.tif", "b.tif"}
members(n) == IF n = "a.zip" THEN {"a.tif"} ELSE {}

\* the staging directory is empty and main has not been started
StagingIdle ==
    /\ dir = [n \in FileNames |-> "absent"]
    /\ fname = [t \in Threads |-> "none"]
    /\ processed_exists = FALSE
    /\ tif_files = {}
    /\ poll_attempt = 0
    /\ urun = 1

Init ==
    /\ variant \in Variants
    /\ n_items = MaxItems
    /\ progress_file \in InitialFiles
    /\ PipelineIdle
    /\ GateIdle
    /\ n_downloads = 0
    /\ StreamIdle
    /\ CatalogIdle
    /\ RunnerIdle
    /\ StagingIdle

runVars == <<variant, n_items, run, prevDone, prevFile>>
fileVars == <<progress_file, tmp_file>>
itemVars == <<attempt, ret, last, sign_attempt, slept, step, nonzero>>

\* the memory of a process that has ended is gone
MemoryLost ==
    /\ completed_urls' = {}
    /\ attempt' = 0
    /\ ret' = "unset"
    /\ last' = "none"
    /\ sign_attempt' = 0
    /\ slept' = 0
    /\ step' = 1
    /\ nonzero' = {}
    /\ outcome' = [k \in Items |-> "pending"]
    /\ calls' = {}

\* an exception leaves the program while item i is processed
Crash(e) ==
    /\ pc' = "crashed"
    /\ exc' = e
    /\ MemoryLost
    /\ UNCHANGED <<i, killed_at, fileBefore>>

\* the body of the per-item loop is left (continue, or its end is reached)
EndItem(out) ==
    /\ outcome' = [outcome EXCEPT ![i] = out]
    /\ i' = i + 1
    /\ pc' = "loop"
    /\ attempt' = 0
    /\ ret' = "unset"
    /\ last' = "none"
    /\ sign_attempt' = 0
    /\ slept' = 0
    /\ step' = 1
    /\ nonzero' = {}

Called(kind) == calls' = calls \cup {kind}

\* ProcessTracker(output_dir)
LoadProgress ==
    /\ pc = "start"
    /\ LET r == load_progress(variant, progress_file) IN
       IF r.raised # "none"
       THEN /\ Crash("load")
            /\ UNCHANGED fs
       ELSE /\ pc' = IF variant = "original" THEN "catalog" ELSE "loop"
            /\ completed_urls' = r.urls
            /\ UNCHANGED <<i, fs, itemVars, outcome, calls, exc, killed_at,
                           fileBefore>>
    /\ UNCHANGED <<otherVars, runVars, fileVars>>

\* what the catalog search gives: the urls, no feature, or a
\* RequestException, which get_tif_urls catches to return the empty list
CatalogResults == {"urls", "empty", "request_error"}
get_tif_urls(r) == IF r = "urls" THEN tif_urls ELSE <<>>

\* tif_urls = get_tif_urls(); if not tif_urls: return
GetTifUrls ==
    /\ pc = "catalog"
    /\ \E r \in CatalogResults :
        pc' = IF get_tif_urls(r) = <<>> THEN "no_items"
              ELSE IF variant = "generator" THEN "start" ELSE "loop"
    /\ UNCHANGED <<otherVars, runVars, fileVars, completed_urls, fileBefore,
                   i, fs, itemVars, outcome, calls, exc, killed_at>>

\* for i, url in enumerate(tif_urls, 1): the list is exhausted
Finish ==
    /\ pc = "loop"
    /\ i > Len(tif_urls)
    /\ pc' = "done"
    /\ UNCHANGED <<otherVars, runVars, fileVars, completed_urls, fileBefore, i, fs,
                   itemVars, outcome, calls, exc, killed_at>>

\* if tracker.is_completed(url): continue
SkipCompleted ==
    /\ pc = "loop"
    /\ i <= Len(tif_urls)
    /\ is_completed(tif_urls[i], completed_urls)
    /\ EndItem("skipped")
    /\ UNCHANGED <<otherVars, runVars, fileVars, completed_urls, fileBefore, fs, calls,
                   exc, killed_at>>

\* an unfinished item: the generator downloads it, the original first
\* resolves its signed url
BeginItem ==
    /\ pc = "loop"
    /\ i <= Len(tif_urls)
    /\ ~is_completed(tif_urls[i], completed_urls)
    /\ pc' = IF variant = "generator" THEN "download" ELSE "sign"
    /\ UNCHANGED <<otherVars, runVars, fileVars, completed_urls, fileBefore, i, fs,
                   itemVars, outcome, calls, exc, killed_at>>

\* ---- signing (original)
\* get_signed_url: "ok" returns the href, "request_error" is a
\* RequestException (caught, returns None), "malformed" is a response whose
\* JSON has no 'href' (KeyError, not caught by get_signed_url)
SignOutcomes == {"ok", "request_error", "malformed"}

\* time.sleep(10) between two signing attempts
sign_delay == 10

GetSignedUrl ==
    /\ pc = "sign"
    /\ \E o \in SignOutcomes :
        CASE o = "ok" ->
               /\ pc' = "download"
               /\ slept' = 0
               /\ Called("sign")
               /\ UNCHANGED <<i, attempt, ret, last, sign_attempt, step,
                              nonzero, outcome, completed_urls, exc,
                              killed_at, fileBefore>>
          [] o = "request_error" ->
               /\ Called("sign")
               /\ IF sign_attempt < max_attempts - 1
                  THEN /\ sign_attempt' = sign_attempt + 1
                       /\ slept' = sign_delay
                       /\ UNCHANGED <<pc, i, attempt, ret, last, step,
                                      nonzero, outcome>>
                  ELSE EndItem("failed")
               /\ UNCHANGED <<completed_urls, exc, killed_at, fileBefore>>
          [] o = "malformed" -> Crash("signing")
    /\ UNCHANGED <<otherVars, runVars, fileVars, fs>>

\* ---- the downloader
\* One attempt of the retry loop ends in one of:
\*   "ok"            the body was streamed to the file
\*   "empty"         a response with a zero-length body
\*   "request_error" connection error or non-success status: a
\*                   RequestException raised before the file is opened
\*   "stream_error"  a RequestException raised by iter_content after the
\*                   file was opened
\*   "stall"         DownloadTimeout (original only)
\*   "io_error"      an OSError from open() or write()
DownloadOutcomes(v) ==
    {"ok", "empty", "request_error", "stream_error", "io_error"}
        \cup (IF v = "original" THEN {"stall"} ELSE {})

\* content of the destination after an attempt, c its content before
attempt_file_generator(c, o) ==
    CASE o = "ok" -> "full"
      [] o = "empty" -> "absent"
      [] o = "request_error" -> c
      [] OTHER -> "partial"

attempt_file_original(c, o) ==
    CASE o = "ok" -> "full"
      [] o = "empty" -> "empty"
      [] OTHER -> "absent"

attempt_file(v, c, o) ==
    IF v = "generator" THEN attempt_file_generator(c, o)
    ELSE attempt_file_original(c, o)

\* how the attempt leaves the try statement: "return" (return True),
\* "continue" (next iteration at once), "caught" (an except clause of the
\* retry loop ran), "raise" (no except clause matches)
attempt_exit_generator(o) ==
    CASE o = "ok" -> "return"
      [] o = "empty" -> "continue"
      [] o = "io_error" -> "raise"
      [] OTHER -> "caught"

attempt_exit_original(o) ==
    IF o \in {"ok", "empty"} THEN "return" ELSE "caught"

attempt_exit(v, o) ==
    IF v = "generator" THEN attempt_exit_generator(o)
    ELSE attempt_exit_original(o)

\* download_tif / download_with_progress: one iteration of the retry loop
\* wait_time of the retry loop after its attempt number k (1-based) failed
backoff_step(v) == IF v = "generator" THEN 5 ELSE 15
wait_time(v, k) == k * backoff_step(v)

DownloadAttempt ==
    /\ pc = "download"
    /\ \E o \in DownloadOutcomes(variant) :
        LET n == download_name(variant)
            x == attempt_exit(variant, o) IN
        /\ fs' = put(fs, i, n, attempt_file(variant, fs[<<i, n>>], o))
        /\ IF x = "raise"
           THEN Crash("download")
           ELSE /\ last' = o
                /\ Called("download")
                /\ CASE x = "return" ->
                          /\ ret' = "True"
                          /\ pc' = "returned"
                          /\ slept' = 0
                          /\ UNCHANGED attempt
                     [] x = "caught" ->
                          IF attempt < max_retries - 1
                          THEN /\ attempt' = attempt + 1
                               /\ slept' = wait_time(variant, attempt + 1)
                               /\ UNCHANGED <<pc, ret>>
                          ELSE /\ ret' = "False"
                               /\ pc' = "returned"
                               /\ slept' = 0
                               /\ UNCHANGED attempt
                     [] x = "continue" ->
                          /\ slept' = 0
                          /\ IF attempt + 1 < max_retries
                             THEN /\ attempt' = attempt + 1
                                  /\ UNCHANGED <<pc, ret>>
                             ELSE /\ ret' = "None"
                                  /\ pc' = "returned"
                                  /\ UNCHANGED attempt
                /\ UNCHANGED <<i, sign_attempt, step, nonzero, outcome,
                               completed_urls, exc, killed_at, fileBefore>>
    /\ UNCHANGED <<otherVars, runVars, fileVars>>

\* the caller's test of the returned value:
\*   generator: if not download_tif(url, input_tif): continue
\*   original:  if download_with_progress(...): if os.path.exists(temp_tif):
CheckDownload ==
    /\ pc = "returned"
    /\ IF ret = "True" /\ exists(fs, i, download_name(variant))
       THEN /\ pc' = IF variant = "generator" THEN "stage" ELSE "convert"
            /\ UNCHANGED <<i, itemVars, outcome>>
       ELSE EndItem("failed")
    /\ UNCHANGED <<otherVars, runVars, fileVars, completed_urls, fileBefore, fs, calls,
                   exc, killed_at>>

\* ---- the transform chain of process_tifs (generator)
\* in/out: the file the stage reads and the file it writes ("none": it
\* updates its input in place or writes nothing); checked: the caller tests
\* returncode != 0 and skips the item; guarded: the call is inside
\* try/except Exception
stage_chain == <<
    [name |-> "gdalinfo_stats", in |-> "input", out |-> "none",
     checked |-> FALSE, guarded |-> TRUE],
    [name |-> "color_fix", in |-> "input", out |-> "corrected",
     checked |-> FALSE, guarded |-> FALSE],
    [name |-> "gdalwarp", in |-> "corrected", out |-> "resampled",
     checked |-> TRUE, guarded |-> FALSE],
    [name |-> "mbtiles", in |-> "resampled", out |-> "final",
     checked |-> TRUE, guarded |-> FALSE],
    [name |-> "gdaladdo", in |-> "final", out |-> "none",
     checked |-> FALSE, guarded |-> FALSE],
    [name |-> "gdalinfo_verify", in |-> "final", out |-> "none",
     checked |-> FALSE, guarded |-> FALSE],
    [name |-> "sqlite3", in |-> "final", out |-> "none",
     checked |-> FALSE, guarded |-> FALSE] >>

\* result of subprocess.run: exit status zero, non-zero, or the process
\* could not be started (FileNotFoundError)
StageResults == {"zero", "nonzero", "nostart"}

\* what the caller does with a result: "next" (go on with the chain),
\* "skip" (continue: the item is abandoned), "raise"
after_stage(s, rc) ==
    CASE rc = "zero" -> "next"
      [] rc = "nonzero" -> IF s.checked THEN "skip" ELSE "next"
      [] OTHER -> IF s.guarded THEN "next" ELSE "raise"

\* subprocess.run / run_command on the next stage of the chain; a command
\* exits zero only if the file it reads exists, and then its output exists
RunStage ==
    /\ pc = "stage"
    /\ \E rc \in StageResults :
        LET s == stage_chain[step]
            x == after_stage(s, rc) IN
        /\ rc = "zero" => exists(fs, i, s.in)
        /\ fs' = IF rc = "zero" /\ s.out # "none"
                 THEN put(fs, i, s.out, "full") ELSE fs
        /\ CASE x = "next" ->
                  /\ step' = step + 1
                  /\ pc' = IF step = Len(stage_chain) THEN "cleanup" ELSE "stage"
                  /\ nonzero' = IF rc = "nonzero"
                                THEN nonzero \cup {s.name} ELSE nonzero
                  /\ Called("transform")
                  /\ UNCHANGED <<i, attempt, ret, last, sign_attempt, slept, outcome,
                                 completed_urls, exc, killed_at, fileBefore>>
             [] x = "skip" ->
                  /\ EndItem("failed")
                  /\ Called("transform")
                  /\ UNCHANGED <<completed_urls, exc, killed_at, fileBefore>>
             [] x = "raise" -> Crash("stage")
    /\ UNCHANGED <<otherVars, runVars, fileVars>>

\* Clean up intermediate files
Cleanup ==
    /\ pc = "cleanup"
    /\ fs' = remove_all(fs, i, {"input", "corrected", "resampled"})
    /\ pc' = "mark"
    /\ UNCHANGED <<otherVars, runVars, fileVars, completed_urls, fileBefore, i, itemVars,
                   outcome, calls, exc, killed_at>>

\* ---- convert_to_mbtiles (original): an existing output is removed first;
\* every error is caught and makes it return False
ConvertResults == {"True", "False"}

convert_output(r) == IF r = "True" THEN "full" ELSE "absent"

ConvertToMbtiles ==
    /\ pc = "convert"
    /\ \E r \in ConvertResults :
        /\ r = "True" => exists(fs, i, "temp")
        /\ Called("transform")
        /\ fs' = put(fs, i, "final", convert_output(r))
        /\ IF r = "True"
           THEN /\ pc' = "mark"
                /\ UNCHANGED <<i, itemVars, outcome>>
           ELSE EndItem("failed")
    /\ UNCHANGED <<otherVars, runVars, fileVars, completed_urls, fileBefore, exc,
                   killed_at>>

\* ---- ProcessTracker.mark_completed and save_progress
\* self.completed_urls.add(url)
MarkCompleted ==
    /\ pc = "mark"
    /\ completed_urls' = completed_urls \cup {tif_urls[i]}
    /\ fileBefore' = progress_file
    /\ pc' = "save_open"
    /\ UNCHANGED <<otherVars, runVars, fileVars, i, fs, itemVars, outcome, calls, exc,
                   killed_at>>

WriteResults == {"ok", "os_error"}

\* the file save_progress opens for writing
save_target(v) == IF v = "generator" THEN "progress" ELSE "tmp"

\* the content c is written to the file save_progress has opened
Written(c) ==
    IF save_target(variant) = "progress"
    THEN progress_file' = c /\ UNCHANGED tmp_file
    ELSE tmp_file' = c /\ UNCHANGED progress_file

\* open(<target>, 'w'): the file is created or truncated to zero bytes; an
\* OSError (permissions) leaves it as it was
SaveOpen ==
    /\ pc = "save_open"
    /\ \E o \in WriteResults :
        IF o = "ok"
        THEN /\ Written(Empty)
             /\ pc' = "save_dump"
             /\ UNCHANGED <<completed_urls, fileBefore, i, itemVars, outcome,
                            calls, exc, killed_at>>
        ELSE /\ Crash("save")
             /\ UNCHANGED fileVars
    /\ UNCHANGED <<otherVars, runVars, fs>>

\* json.dump(list(self.completed_urls), f) and the close of the file; an
\* OSError (disk full) leaves a prefix of the document
SaveDump ==
    /\ pc = "save_dump"
    /\ \E o \in WriteResults :
        IF o = "os_error"
        THEN /\ Written(Truncated)
             /\ Crash("save")
        ELSE /\ Written(json_dump(completed_urls))
             /\ IF save_target(variant) = "progress"
                THEN /\ EndItem("complete")
                     /\ fileBefore' = Missing
                ELSE /\ pc' = "save_replace"
                     /\ UNCHANGED <<fileBefore, i, itemVars, outcome>>
             /\ UNCHANGED <<completed_urls, calls, exc, killed_at>>
    /\ UNCHANGED <<otherVars, runVars, fs>>

\* os.replace(temp_file, self.progress_file)
SaveReplace ==
    /\ pc = "save_replace"
    /\ progress_file' = tmp_file
    /\ tmp_file' = Missing
    /\ fileBefore' = Missing
    /\ EndItem("complete")
    /\ UNCHANGED <<otherVars, runVars, completed_urls, fs, calls, exc, killed_at>>

\* ---- the environment
\* The process is killed. Killed after save_progress opened its file and
\* before the file is closed, the file holds nothing or a prefix of the
\* document; killed during a transfer, the destination holds what was
\* written so far.
Kill ==
    /\ pc \notin Terminal
    /\ pc' = "killed"
    /\ killed_at' = pc
    /\ MemoryLost
    /\ IF pc = "save_dump"
       THEN \E c \in {Empty, Truncated} : Written(c)
       ELSE UNCHANGED fileVars
    /\ IF pc = "download"
       THEN \E c \in {fs[<<i, download_name(variant)>>], "partial"} :
               fs' = put(fs, i, download_name(variant), c)
       ELSE UNCHANGED fs
    /\ UNCHANGED <<otherVars, runVars, fileBefore, exc, i>>

\* names of the files of item k that signal_handler removes: it tests and
\* removes the literal path 'temp_tif', which is none of the item's files
signal_handler_removes(k) == {}

\* original: SIGINT or SIGTERM arrives; signal_handler runs and sys.exit(0)
\* raises SystemExit at the point of interruption, which no except
\* Exception clause catches
Signal ==
    /\ variant = "original"
    /\ pc \notin Terminal
    /\ pc' = "exited"
    /\ killed_at' = pc
    /\ MemoryLost
    /\ IF pc = "save_dump"
       THEN \E c \in {Empty, Truncated} : Written(c)
       ELSE UNCHANGED fileVars
    /\ \E f \in IF pc = "download"
                THEN {fs, put(fs, i, download_name(variant), "partial")}
                ELSE {fs} :
          fs' = remove_all(f, i, signal_handler_removes(i))
    /\ UNCHANGED <<otherVars, runVars, fileBefore, exc, i>>

AllCompleted ==
    \A k \in 1..Len(tif_urls) : is_completed(tif_urls[k], completed_urls)

\* A new process is started on the same item list and output directory.
Restart ==
    /\ pc \in Terminal
    /\ run < MaxRuns
    /\ run' = run + 1
    /\ prevDone' = (pc = "done" /\ AllCompleted)
    /\ prevFile' = progress_file
    /\ pc' = entry(variant)
    /\ i' = 1
    /\ MemoryLost
    /\ exc' = "none"
    /\ killed_at' = "none"
    /\ fileBefore' = Missing
    /\ UNCHANGED <<otherVars, variant, n_items, fileVars, fs>>

Next ==
    \/ GetTifUrls
    \/ LoadProgress
    \/ Finish
    \/ SkipCompleted
    \/ BeginItem
    \/ GetSignedUrl
    \/ DownloadAttempt
    \/ CheckDownload
    \/ RunStage
    \/ Cleanup
    \/ ConvertToMbtiles
    \/ MarkCompleted
    \/ SaveOpen
    \/ SaveDump
    \/ SaveReplace
    \/ Kill
    \/ Signal
    \/ Restart

Spec == Init /\ [][Next]_vars

(***************************************************************************)
(* usgs_test.py: the download threads and the semaphore that gates them    *)
(***************************************************************************)
\* how often a downloadFile thread calls sema.release() on each way out
releases_twice(way) == IF way = "exception" THEN 2 ELSE 1
releases_never(way) == IF way = "exception" THEN 0 ELSE 1
releases(way) == 1

\* the thread is between its sema.acquire() and its sema.release()
Holding == {"request", "write", "extract"}

\* runDownload(url): the thread is appended to threads and started
RunDownload ==
    /\ main_pc = "download"
    /\ spawned < n_downloads
    /\ spawned' = spawned + 1
    /\ th' = [th EXCEPT ![spawned + 1] = "acquire"]
    /\ UNCHANGED <<sema, main_pc, n_downloads, notGate>>

\* sema.acquire(): blocks while the value is zero
Acquire(t) ==
    /\ th[t] = "acquire"
    /\ sema > 0
    /\ sema' = sema - 1
    /\ th' = [th EXCEPT ![t] = "request"]
    /\ UNCHANGED <<spawned, main_pc, n_downloads, notGate>>

\* the thread leaves downloadFile by the given way
Leave(t, way) ==
    /\ sema' = sema + releases(way)
    /\ th' = [th EXCEPT ![t] = "finished"]

RequestResults == {"ok", "no_filename", "bad_extension", "exception"}

\* requests.get, the content-disposition and extension checks
Request(t) ==
    /\ th[t] = "request"
    /\ \E o \in RequestResults :
        IF o = "ok"
        THEN /\ th' = [th EXCEPT ![t] = "write"]
             /\ UNCHANGED sema
        ELSE Leave(t, o)
    /\ UNCHANGED <<spawned, main_pc, n_downloads, notGate>>

\* with open(full_path, 'wb'): the chunks are written
WriteFile(t) ==
    /\ th[t] = "write"
    /\ \E o \in {"ok", "exception"} :
        IF o = "ok"
        THEN /\ th' = [th EXCEPT ![t] = "extract"]
             /\ UNCHANGED sema
        ELSE Leave(t, o)
    /\ UNCHANGED <<spawned, main_pc, n_downloads, notGate>>

\* the archive is extracted; its errors are caught inside
Extract(t) ==
    /\ th[t] = "extract"
    /\ \E o \in {"ok", "zip_error"} : Leave(t, "end")
    /\ UNCHANGED <<spawned, main_pc, n_downloads, notGate>>

JoinEarly ==
    /\ main_pc = "download"
    /\ spawned = n_downloads
    /\ main_pc' = "joined"
    /\ UNCHANGED <<sema, th, spawned, n_downloads, notGate>>

\* for thread in threads: thread.join()
Join ==
    /\ main_pc = "download"
    /\ spawned = n_downloads
    /\ \A t \in 1..spawned : th[t] = "finished"
    /\ main_pc' = "joined"
    /\ UNCHANGED <<sema, th, spawned, n_downloads, notGate>>

\* state of the pipeline and stream variables in a run of usgs_test
NoPipeline ==
    /\ variant = "usgs_test"
    /\ n_items = MaxItems
    /\ progress_file = Missing
    /\ PipelineIdle
    /\ StreamIdle
    /\ CatalogIdle
    /\ RunnerIdle
    /\ StagingIdle

\* the poll has reported MaxDownloads available urls
GateInit ==
    /\ NoPipeline
    /\ GateIdle
    /\ n_downloads = MaxDownloads

\* the poll has reported one url more than the semaphore has slots
GateFairInit ==
    /\ NoPipeline
    /\ GateIdle
    /\ n_downloads = maxthreads + 1

\* the semaphore and the threads alone: the files are not looked into
GateNext ==
    \/ RunDownload /\ UNCHANGED stagingVars
    \/ \E t \in Threads : Acquire(t) /\ UNCHANGED stagingVars
    \/ \E t \in Threads : Request(t) /\ UNCHANGED stagingVars
    \/ \E t \in Threads : WriteFile(t) /\ UNCHANGED stagingVars
    \/ \E t \in Threads : Extract(t) /\ UNCHANGED stagingVars
    \/ Join /\ UNCHANGED stagingVars

SpecGate == GateInit /\ [][GateNext]_vars

\* The scheduler does not stop while some thread can take a step, and every
\* request, write and extraction of an admitted download returns or raises:
\* a step of the program that stays possible is eventually taken.
GateFairness == WF_vars(GateNext)

SpecGateFair == GateFairInit /\ [][GateNext]_vars /\ GateFairness

(***************************************************************************)
(* One download attempt, chunk by chunk: the body of download_tif's try    *)
(* block (generator) and download_with_timeout (original).                 *)
(***************************************************************************)
\* the stall check of the attempt: is a chunk that arrives g ticks after
\* the last write refused with DownloadTimeout?
stall_check_generator(g) == FALSE
stall_check_original(g) == g > timeout
stall_check(v, g) ==
    IF v = "generator" THEN stall_check_generator(g)
    ELSE stall_check_original(g)

\* is a finished stream of n written chunks reported as success?
verified_generator(n) == n > 0
verified_original(n) == TRUE
verified(v, n) ==
    IF v = "generator" THEN verified_generator(n) ELSE verified_original(n)

\* is the file removed when the attempt fails with an exception?
removed_on_error(v) == v = "original"

\* session.get(url, stream=True) answered, open(path, 'wb')
OpenStream ==
    /\ stream = "idle"
    /\ body' \in 0..MaxChunks
    /\ stream' = "open"
    /\ written' = <<>>
    /\ dest_exists' = TRUE
    /\ gap' = 0
    /\ UNCHANGED <<notStream>>

\* time passes while iter_content waits for the next chunk
Tick ==
    /\ stream = "open"
    /\ gap < timeout + 2
    /\ gap' = gap + 1
    /\ UNCHANGED <<stream, body, written, dest_exists, notStream>>

\* iter_content yields the next chunk of the body
ChunkArrives ==
    /\ stream = "open"
    /\ Len(written) < body
    /\ IF stall_check(variant, gap)
       THEN /\ stream' = "timeout"
            /\ written' = <<>>
            /\ dest_exists' = FALSE
            /\ UNCHANGED gap
       ELSE /\ written' = Append(written, Len(written) + 1)
            /\ gap' = 0
            /\ UNCHANGED <<stream, dest_exists>>
    /\ UNCHANGED <<body, notStream>>

\* iter_content is exhausted: the attempt returns
EndOfStream ==
    /\ stream = "open"
    /\ Len(written) = body
    /\ IF verified(variant, Len(written))
       THEN /\ stream' = "success"
            /\ UNCHANGED dest_exists
       ELSE /\ stream' = "retry"
            /\ dest_exists' = FALSE
    /\ UNCHANGED <<body, written, gap, notStream>>

\* iter_content raises a RequestException
StreamError ==
    /\ stream = "open"
    /\ stream' = "retry"
    /\ IF removed_on_error(variant)
       THEN written' = <<>> /\ dest_exists' = FALSE
       ELSE UNCHANGED <<written, dest_exists>>
    /\ UNCHANGED <<body, gap, notStream>>

StreamInit ==
    /\ variant \in Variants
    /\ n_items = MaxItems
    /\ progress_file = Missing
    /\ PipelineIdle
    /\ GateIdle
    /\ n_downloads = 0
    /\ StreamIdle
    /\ CatalogIdle
    /\ RunnerIdle
    /\ StagingIdle

StreamNext ==
    \/ OpenStream
    \/ Tick
    \/ ChunkArrives
    \/ EndOfStream
    \/ StreamError

SpecStream == StreamInit /\ [][StreamNext]_vars

(***************************************************************************)
(* The flaky-download scenario: a run over ScenarioItems items A, B, C, .. *)
(* that starts from an empty progress store, in which every signing call,  *)
(* every stage and every write succeeds, and the download of B fails with  *)
(* a transient network failure on attempts 1 and 2 and succeeds on 3.      *)
(***************************************************************************)
TransientFailures == {"request_error", "stream_error", "stall"}

\* the outcome of the download attempt this step makes; B is tif_urls[2]
ScriptedDownload ==
    IF i = 2 /\ attempt < 2
    THEN last' \in TransientFailures
    ELSE last' = "ok"

ScenarioInit ==
    /\ variant \in Variants
    /\ n_items = ScenarioItems
    /\ progress_file \in {Missing, JsonList(<<>>)}
    /\ PipelineIdle
    /\ GateIdle
    /\ n_downloads = 0
    /\ StreamIdle
    /\ CatalogIdle
    /\ RunnerIdle
    /\ StagingIdle

ScenarioNext ==
    \/ GetTifUrls /\ pc' # "no_items"
    \/ LoadProgress
    \/ BeginItem
    \/ GetSignedUrl /\ pc' = "download"
    \/ DownloadAttempt /\ ScriptedDownload
    \/ CheckDownload
    \/ RunStage /\ pc' \in {"stage", "cleanup"} /\ nonzero' = {}
    \/ Cleanup
    \/ ConvertToMbtiles /\ pc' = "mark"
    \/ MarkCompleted
    \/ SaveOpen /\ pc' = "save_dump"
    \/ SaveDump /\ pc' # "crashed"
    \/ SaveReplace
    \/ Finish

SpecScenario == ScenarioInit /\ [][ScenarioNext]_vars

(***************************************************************************)
(* get_tif_urls: from the features of the catalog response to the work     *)
(* list. A feature is [url, datetime]; datetimes are numbers, two to a     *)
(* year.                                                                   *)
(***************************************************************************)
AssetUrls == 1..2
DateTimes == 0..3
Features == [url : AssetUrls, datetime : DateTimes]

\* datetime.strptime(x['properties']['datetime'], ...).year
year(d) == d \div 2

\* sorted(features, key=datetime, reverse=True): the sort is stable, so
\* features of equal datetime keep their order
RECURSIVE insert(_, _)
insert(x, sorted) ==
    IF sorted = <<>> THEN <<x>>
    ELSE IF Head(sorted).datetime < x.datetime THEN <<x>> \o sorted
    ELSE <<Head(sorted)>> \o insert(x, Tail(sorted))

RECURSIVE sorted_features(_)
sorted_features(ft) ==
    IF ft = <<>> THEN <<>>
    ELSE insert(ft[Len(ft)], sorted_features(SubSeq(ft, 1, Len(ft) - 1)))

\* latest_year = year of sorted_features[0]
latest_year(sf) == year(sf[1].datetime)

\* region_features = [f for f in sorted_features if year(f) == latest_year]
RECURSIVE region_features(_, _)
region_features(sf, y) ==
    IF sf = <<>> THEN <<>>
    ELSE IF year(Head(sf).datetime) = y
         THEN <<Head(sf)>> \o region_features(Tail(sf), y)
         ELSE region_features(Tail(sf), y)

\* a loop that appends the url of every feature
RECURSIVE append_all(_, _)
append_all(urls, rf) ==
    IF rf = <<>> THEN urls
    ELSE append_all(Append(urls, Head(rf).url), Tail(rf))

\* for feature in region_features: if url not in all_urls: append
RECURSIVE append_new(_, _)
append_new(urls, rf) ==
    IF rf = <<>> THEN urls
    ELSE append_new(IF Head(rf).url \in Range(urls) THEN urls
                    ELSE Append(urls, Head(rf).url), Tail(rf))

\* the list get_tif_urls returns for a response with these features
url_list(ft) ==
    IF ft = <<>> THEN <<>>
    ELSE LET sf == sorted_features(ft) IN
         append_new(<<>>, region_features(sf, latest_year(sf)))

\* response.json().get('features', []) ... return all_urls
SearchCatalog ==
    /\ cat_pc = "search"
    /\ cat_pc' = "returned"
    /\ all_urls' = url_list(features)
    /\ UNCHANGED <<features, notCatalog>>

\* the sequences over S of length at most n
RECURSIVE BoundedSeqs(_, _)
BoundedSeqs(S, n) ==
    IF n = 0 THEN {<<>>}
    ELSE LET shorter == BoundedSeqs(S, n - 1) IN
         shorter \cup {Append(q, x) : q \in shorter, x \in S}

CatalogInit ==
    /\ variant \in Variants
    /\ n_items = MaxItems
    /\ progress_file = Missing
    /\ PipelineIdle
    /\ GateIdle
    /\ n_downloads = 0
    /\ StreamIdle
    /\ cat_pc = "search"
    /\ features \in BoundedSeqs(Features, MaxFeatures)
    /\ all_urls = <<>>
    /\ RunnerIdle
    /\ StagingIdle

CatalogNext == SearchCatalog

SpecCatalog == CatalogInit /\ [][CatalogNext]_vars

(***************************************************************************)
(* run_command of basemap_generator.py and of usgs_test.py                 *)
(***************************************************************************)
\* what the external command does: it runs and exits with a status, or it
\* cannot be started (no such executable: subprocess.run raises OSError)
ExitStatuses == 0..255
Commands ==
    [kind : {"exit"}, status : ExitStatuses]
        \cup {[kind |-> "nostart", status |-> 0]}

\* generator: result = subprocess.run(command, ...); return result
run_command_generator(c) ==
    IF c.kind = "exit"
    THEN [kind |-> "returned", returncode |-> c.status]
    ELSE [kind |-> "raised", returncode |-> 0]

\* usgs_test: subprocess.run(command, check=True, ...) returns the result;
\* a CalledProcessError is caught and returned, it carries the returncode
run_command_usgs(c) ==
    IF c.kind = "exit"
    THEN [kind |-> "returned", returncode |-> c.status]
    ELSE [kind |-> "raised", returncode |-> 0]

run_command(v, c) ==
    IF v = "generator" THEN run_command_generator(c) ELSE run_command_usgs(c)

\* one call of run_command(command)
RunCommand ==
    /\ result.kind = "none"
    /\ cmd_starts' = cmd_starts + 1
    /\ result' = run_command(variant, cmd)
    /\ UNCHANGED <<cmd, notRunner>>

RunnerInit ==
    /\ variant \in {"generator", "usgs_test"}
    /\ n_items = MaxItems
    /\ progress_file = Missing
    /\ PipelineIdle
    /\ GateIdle
    /\ n_downloads = 0
    /\ StreamIdle
    /\ CatalogIdle
    /\ cmd \in Commands
    /\ StagingIdle
    /\ cmd_starts = 0
    /\ result = [kind |-> "none", returncode |-> 0]

RunnerNext == RunCommand

SpecRunner == RunnerInit /\ [][RunnerNext]_vars

(***************************************************************************)
(* usgs_test.py: main, its download threads and the staging directory      *)
(***************************************************************************)
\* max_attempts of the polling loop of main
poll_max_attempts == 6000

\* while attempt < max_attempts
poll_again_ever(a) == TRUE
poll_again(a) == a < poll_max_attempts

\* [f for f in os.listdir(path) if f.lower().endswith('.tif')]
listed_tifs(d) == {n \in TifNames : d[n] # "absent"}

\* filename = content_disp.split('filename=')[1]: the name is the server's
Named(t) ==
    /\ IF th'[t] = "write"
       THEN \E n \in FileNames : fname' = [fname EXCEPT ![t] = n]
       ELSE UNCHANGED fname
    /\ UNCHANGED <<dir, processed_exists, tif_files, poll_attempt, urun>>

\* with open(full_path, 'wb'): all chunks are written, or the transfer
\* raises and what was written of os.path.join(path, filename) stays
Stored(t) ==
    /\ IF th'[t] = "extract"
       THEN /\ dir' = [dir EXCEPT ![fname[t]] = "full"]
            /\ UNCHANGED fname
       ELSE /\ dir' \in {dir, [dir EXCEPT ![fname[t]] = "partial"]}
            /\ fname' = [fname EXCEPT ![t] = "none"]
    /\ UNCHANGED <<processed_exists, tif_files, poll_attempt, urun>>

\* zip_ref.extract(file, path) for the images of an archive, then
\* os.remove(full_path); an error in between is caught and leaves the rest
Extracted(t) ==
    /\ IF members(fname[t]) = {}
       THEN UNCHANGED dir
       ELSE dir' \in
              { [n \in FileNames |->
                    IF n \in members(fname[t]) THEN "full"
                    ELSE IF n = fname[t] THEN "absent" ELSE dir[n]],
                [n \in FileNames |->
                    IF n \in members(fname[t]) THEN "partial" ELSE dir[n]],
                dir }
    /\ fname' = [fname EXCEPT ![t] = "none"]
    /\ UNCHANGED <<processed_exists, tif_files, poll_attempt, urun>>

\* main: os.makedirs(path), the listing of existing tif files, and the
\* branch that skips the download
StartMain ==
    /\ main_pc = "start"
    /\ IF listed_tifs(dir) # {}
       THEN /\ tif_files' = listed_tifs(dir)
            /\ main_pc' = "process_existing"
       ELSE /\ main_pc' = "prepare"
            /\ UNCHANGED tif_files
    /\ UNCHANGED <<sema, th, spawned, n_downloads, notGate,
                   dir, fname, processed_exists, poll_attempt, urun>>

\* login-token, scene-search, download-options, download-request:
\* sendRequest ends the process on an error, main returns without downloads
Prepare ==
    /\ main_pc = "prepare"
    /\ \E o \in {"ok", "no_downloads", "error"} :
        main_pc' = CASE o = "ok" -> "poll"
                     [] o = "no_downloads" -> "done"
                     [] OTHER -> "exited"
    /\ poll_attempt' = 0
    /\ UNCHANGED <<sema, th, spawned, n_downloads, notGate,
                   dir, fname, processed_exists, tif_files, urun>>

\* the number of urls a poll reports as available, at most
MaxAvailable == 2

\* one pass of the polling loop: download-retrieve; a non-empty 'available'
\* list starts one thread per url (RunDownload) and breaks, attempt is not
\* read after the loop; otherwise sleep and attempt += 1
Poll ==
    /\ main_pc = "poll"
    /\ poll_again(poll_attempt)
    /\ \/ /\ main_pc' = "exited"
          /\ UNCHANGED <<n_downloads, poll_attempt>>
       \/ /\ poll_attempt' = poll_attempt + 1
          /\ UNCHANGED <<main_pc, n_downloads>>
       \/ \E k \in 1..MaxAvailable :
            /\ n_downloads' = k
            /\ main_pc' = "download"
            /\ poll_attempt' = 0
    /\ UNCHANGED <<sema, th, spawned, notGate,
                   dir, fname, processed_exists, tif_files, urun>>

\* the loop condition fails: no thread was started
PollExhausted ==
    /\ main_pc = "poll"
    /\ ~poll_again(poll_attempt)
    /\ n_downloads' = 0
    /\ main_pc' = "download"
    /\ UNCHANGED <<sema, th, spawned, notGate, stagingVars>>

\* after the joins: tif_files is listed and input_tifs.txt is opened in
\* processed_dir, which only process_downloaded_tifs creates; without tif
\* files the logout request follows, which sendRequest may end with exit
ListTifs ==
    /\ main_pc = "joined"
    /\ tif_files' = listed_tifs(dir)
    /\ main_pc' \in IF ~processed_exists THEN {"crashed"}
                    ELSE IF listed_tifs(dir) # {} THEN {"process"}
                    ELSE {"done", "exited"}
    /\ UNCHANGED <<sema, th, spawned, n_downloads, notGate,
                   dir, fname, processed_exists, poll_attempt, urun>>

\* process_downloaded_tifs(tif_files): os.makedirs(processed_dir) and the
\* stages, which write into processed_dir only; after the downloads of
\* this run the logout request follows
Process ==
    /\ main_pc \in {"process", "process_existing"}
    /\ processed_exists' = TRUE
    /\ main_pc' \in IF main_pc = "process" THEN {"done", "exited"} ELSE {"done"}
    /\ UNCHANGED <<sema, th, spawned, n_downloads, notGate,
                   dir, fname, tif_files, poll_attempt, urun>>

\* the script is started again on the same output directory
RestartMain ==
    /\ main_pc \in {"done", "exited", "crashed"}
    /\ urun < MaxRuns
    /\ urun' = urun + 1
    /\ main_pc' = "start"
    /\ sema' = maxthreads
    /\ th' = [t \in Threads |-> "unstarted"]
    /\ spawned' = 0
    /\ n_downloads' = 0
    /\ tif_files' = {}
    /\ poll_attempt' = 0
    /\ UNCHANGED <<notGate, dir, fname, processed_exists>>

\* a first run; processed_dir may be there from an earlier use of the
\* output directory whose tif files were taken away since
UsgsInit ==
    /\ variant = "usgs_test"
    /\ n_items = MaxItems
    /\ progress_file = Missing
    /\ PipelineIdle
    /\ StreamIdle
    /\ CatalogIdle
    /\ RunnerIdle
    /\ sema = maxthreads
    /\ th = [t \in Threads |-> "unstarted"]
    /\ spawned = 0
    /\ main_pc = "start"
    /\ n_downloads = 0
    /\ dir = [n \in FileNames |-> "absent"]
    /\ fname = [t \in Threads |-> "none"]
    /\ processed_exists \in BOOLEAN
    /\ tif_files = {}
    /\ poll_attempt = 0
    /\ urun = 1

UsgsNext ==
    \/ StartMain
    \/ Prepare
    \/ Poll
    \/ PollExhausted
    \/ RunDownload /\ UNCHANGED stagingVars
    \/ \E t \in Threads : Acquire(t) /\ UNCHANGED stagingVars
    \/ \E t \in Threads : Request(t) /\ Named(t)
    \/ \E t \in Threads : WriteFile(t) /\ Stored(t)
    \/ \E t \in Threads : Extract(t) /\ Extracted(t)
    \/ Join /\ UNCHANGED stagingVars
    \/ ListTifs
    \/ Process
    \/ RestartMain

SpecUsgs == UsgsInit /\ [][UsgsNext]_vars

(***************************************************************************)
(* Properties                                                              *)
(***************************************************************************)
SavePcs == {"save_open", "save_dump", "save_replace"}

\* stages the specification names as mandatory, and as best-effort
Mandatory == {"color_fix", "gdalwarp", "mbtiles"}
BestEffort == {"gdaladdo", "gdalinfo_verify", "sqlite3"}

\* the completed set the next load_progress would read from the file
Persisted == load_progress(variant, progress_file).urls

StagingClean(k) == \A n \in staging_names(variant) : ~exists(fs, k, n)

\* C1: a process that dies inside mark_completed/save_progress leaves a
\* progress file that the next load reads as the previously persisted set or
\* as that set plus the new url, never an empty, truncated or unparsable file.
C1_AtomicPersistence ==
    (/\ \/ pc = "killed" /\ killed_at \in SavePcs
        \/ pc = "crashed" /\ exc = "save"
     /\ fileBefore.kind \in {"missing", "list"})
    => /\ progress_file.kind \in {"missing", "list"}
       /\ load_progress(variant, progress_file).raised = "none"
       /\ LET before == load_progress(variant, fileBefore).urls IN
          Persisted \in {before, before \cup {tif_urls[i]}}

\* C2: after a run that ended with every item marked complete, the next run
\* makes no signing call, no download and no transform call, leaves the
\* progress file as it was, and the file holds each url of the list exactly
\* once.
C2_IdempotentResumption ==
    prevDone =>
        /\ calls = {}
        /\ progress_file = prevFile
        /\ \A k \in 1..Len(tif_urls) :
              Cardinality({n \in 1..Len(progress_file.elems) :
                              progress_file.elems[n] = tif_urls[k]}) = 1
        /\ pc \notin {"download", "returned", "sign", "stage", "convert"}

\* C2 witness: a second run has finished after a first run that downloaded,
\* transformed and marked every item; it skipped them all.
C2_Witness ==
    /\ prevDone
    /\ pc = "done"
    /\ \A k \in 1..Len(tif_urls) : outcome[k] = "skipped"
    /\ progress_file = json_dump(Urls)

\* C3: after a failed download attempt, and after a fetch that returned
\* failure, the destination path does not exist.
C3_NoPartialFile ==
    (\/ last \in {"request_error", "stream_error", "stall"}
     \/ pc = "returned" /\ ret # "True")
    => ~exists(fs, i, download_name(variant))

\* C4: when a url is added to the completed set, the item's final output
\* exists, all its staging files have been removed, its download succeeded
\* and none of its mandatory stages exited non-zero.
C4_MarkedOnlyWhenClean ==
    pc \in SavePcs =>
        /\ exists(fs, i, "final")
        /\ StagingClean(i)
        /\ ret = "True"
        /\ nonzero \cap Mandatory = {}

\* C5: a mandatory stage that exits non-zero ends the chain of its item
\* (no later stage runs, the item is failed); a best-effort stage that exits
\* non-zero never fails the item.
C5_Step ==
    (pc = "stage" /\ pc' # "killed") =>
        LET s == stage_chain[step] IN
        /\ s.name \in Mandatory => s.name \notin nonzero'
        /\ s.name \in BestEffort => outcome'[i] # "failed"

C5_FailFast == [][C5_Step]_vars

\* C6: an item that ended FAILED has no staging file left and its url is not
\* in the persisted completed set.
C6_CleanupOnFailure ==
    \A k \in Items :
        outcome[k] = "failed" =>
            /\ StagingClean(k)
            /\ tif_urls[k] \notin Persisted

\* C7: no failure of an item (signing, download, stage) ends the run with an
\* exception.
C7_FailureIsolation ==
    ~(pc = "crashed" /\ exc \in {"signing", "download", "stage"})

\* C8: the downloader makes at most max_retries attempts and, when it does
\* not succeed, returns False: it neither raises nor returns no value.
C8_RetryBudget ==
    /\ attempt < max_retries
    /\ pc = "returned" => ret \in {"True", "False"}
    /\ ~(pc = "crashed" /\ exc = "download")

\* C9: a failure to write the progress file inside mark_completed does not
\* end the run, and the item is not in the persisted set.
C9_PersistenceFailureLocal ==
    exc = "save" =>
        /\ pc # "crashed"
        /\ tif_urls[i] \notin Persisted

\* C10: constructing the tracker on a missing, empty, truncated or
\* non-list progress file returns normally with an empty completed set.
C10_LoadNeverFails ==
    /\ ~(pc = "crashed" /\ exc = "load")
    /\ (pc = "loop" /\ i = 1 /\ progress_file.kind # "list")
          => completed_urls = {}

\* C11: at most maxthreads downloadFile threads are between sema.acquire()
\* and sema.release() in every reachable state, however many downloads
\* (more than maxthreads) the run has started.
C11_BoundedConcurrency ==
    Cardinality({t \in Threads : th[t] \in Holding}) <= maxthreads

\* maxthreads threads hold the semaphore and a further one waits for it
C11_Witness ==
    /\ MaxDownloads > maxthreads
    /\ Cardinality({t \in Threads : th[t] \in Holding}) = maxthreads
    /\ \E t \in Threads : th[t] = "acquire"
    /\ sema = 0

\* C12: stall detection. Once the time since the last written chunk exceeds
\* the timeout, the next thing that happens to the open transfer is its
\* abort with DownloadTimeout: no chunk is written, and the transfer does
\* not stay open while more time passes without a chunk.
C12_Step ==
    (stream = "open" /\ gap > timeout) =>
        /\ stream' = "timeout"
        /\ Len(written') <= Len(written)
C12_StallDetection == [][C12_Step]_vars

\* C13: linear backoff. When attempt k+1 of a download is about to start
\* (k >= 1 attempts have failed, of whatever kind), the downloader has just
\* waited k times its step (5 s in download_tif, 15 s in
\* download_with_progress); when the downloader has given up after its final
\* failed attempt it has not waited.
C13_LinearBackoff ==
    /\ (pc = "download" /\ attempt > 0) =>
          slept = attempt * (IF variant = "generator" THEN 5 ELSE 15)
    /\ (pc = "returned" /\ ret # "True") => slept = 0

\* positions of the original between the start of an item and its
\* mark_completed call: resolving, downloading, transforming
BeforeMark == {"sign", "download", "returned", "convert"}

\* C14: when the original has exited on SIGINT/SIGTERM received while item i
\* was resolved, downloaded or transformed, the url of item i is not in the
\* completed set the progress file holds, so the next run does not skip it.
C14_NoFalseCompletion ==
    (pc = "exited" /\ killed_at \in BeforeMark) => tif_urls[i] \notin Persisted

\* the second item is interrupted in its transform after the first was marked
C14_Witness ==
    /\ pc = "exited" /\ killed_at = "convert" /\ i = 2
    /\ Persisted = {tif_urls[1]}

\* C15: when the original has exited on a signal received while the download
\* of item i was in flight, the download file temp_ky_<i>.tif of that item
\* does not exist.
C15_PartialRemovedOnShutdown ==
    (pc = "exited" /\ killed_at = "download") =>
        ~exists(fs, i, download_name(variant))

\* C16: a run that worked through a non-empty item list exits with status 0,
\* and a run that could not start, because the catalog gave no item or the
\* progress store could not be initialized, exits with a non-zero status.
C16_ExitStatus ==
    /\ pc = "done" => exit_status(pc) = 0
    /\ pc = "no_items" => exit_status(pc) # 0
    /\ (pc = "crashed" /\ exc = "load") => exit_status(pc) # 0

\* C17: durable before applied. Every url the in-memory completed set holds
\* (so that is_completed returns true for it) is already in the set the
\* progress file holds, in every state of a run, the states inside
\* mark_completed and after a failed save_progress included.
C17_DurableBeforeApplied ==
    pc \notin Terminal => \A u \in completed_urls : u \in Persisted

\* C18: signed-url resolution. get_signed_url is called at most 3 times for
\* an item, a further call comes after a wait of 10 s, and a failure of the
\* signing call, a malformed response body included, ends the item and never
\* the run.
C18_SigningRetry ==
    /\ sign_attempt < 3
    /\ (pc = "sign" /\ sign_attempt > 0) => slept = 10
    /\ ~(pc = "crashed" /\ exc = "signing")

\* C19: when a download attempt returns success, the destination file
\* exists, is not empty and holds every chunk of the response body in
\* order; a zero-length body is never reported as success.
C19_VerifiedOnSuccess ==
    stream = "success" =>
        /\ dest_exists
        /\ body > 0
        /\ written = [k \in 1..body |-> k]

\* C20: in the flaky-download scenario the downloader returns success for
\* every item, after exactly 3 attempts for B and 1 for every other item;
\* the run is never stuck before its end, and at its end every item is
\* COMPLETE and the persisted set is the set of all the urls.
C20_FlakyDownload ==
    /\ pc = "returned" =>
          /\ ret = "True"
          /\ attempt + 1 = (IF i = 2 THEN 3 ELSE 1)
    /\ pc # "done" => ENABLED ScenarioNext
    /\ pc = "done" =>
          /\ \A k \in 1..n_items : outcome[k] = "complete"
          /\ Persisted = Urls

\* the run over A, B, C has ended with the three urls in the file
C20_Witness ==
    /\ pc = "done" /\ n_items >= 3
    /\ \A k \in 1..n_items : outcome[k] = "complete"
    /\ progress_file = json_dump(Urls)

\* C21: every downloadFile thread that acquired the semaphore releases it
\* exactly once on its way out: the free slots and the threads between
\* acquire and release always add up to maxthreads, so the value never
\* exceeds maxthreads and is maxthreads again once every thread has finished.
C21_ReleaseOnce ==
    /\ sema + Cardinality({t \in Threads : th[t] \in Holding}) = maxthreads
    /\ sema <= maxthreads
    /\ (\A t \in Threads : th[t] \in {"unstarted", "finished"}) =>
          sema = maxthreads

\* all the downloads of a run larger than the capacity have finished
C21_Witness ==
    /\ spawned > maxthreads
    /\ \A t \in Threads : th[t] = "finished"
    /\ sema = maxthreads

\* C22: gate liveness. Under weak fairness of the threads, every download
\* thread blocked in sema.acquire() is eventually admitted, and the join of
\* the main thread over all download threads eventually returns.
C22_GateLiveness ==
    /\ \A t \in Threads : (th[t] = "acquire") ~> (th[t] \in Holding)
    /\ <>(main_pc = "joined")

\* a download thread is blocked: it waits while every slot is taken
C22_Witness ==
    /\ \E t \in Threads : th[t] = "acquire"
    /\ sema = 0
    /\ main_pc = "download"

Max(S) == CHOOSE x \in S : \A y \in S : x >= y

\* datetimes of the features of the response that carry url u in the year of
\* the most recent feature
LatestYear == year(Max({features[k].datetime : k \in 1..Len(features)}))
DatesOf(u) ==
    {features[k].datetime : k \in {n \in 1..Len(features) :
        features[n].url = u /\ year(features[n].datetime) = LatestYear}}

\* C25: the list get_tif_urls returns holds every url at most once, holds
\* only urls of features of the year of the most recent feature (and all of
\* them), and is in descending order of the datetime of those features.
C25_WorkList ==
    (cat_pc = "returned" /\ features # <<>>) =>
        /\ \A a, b \in 1..Len(all_urls) : a # b => all_urls[a] # all_urls[b]
        /\ Range(all_urls) = {u \in AssetUrls : DatesOf(u) # {}}
        /\ \A a, b \in 1..Len(all_urls) :
              a < b => Max(DatesOf(all_urls[a])) >= Max(DatesOf(all_urls[b]))

\* a response in which a url occurs twice in the latest year, behind an
\* older feature, and a second url follows
C25_Witness ==
    /\ cat_pc = "returned"
    /\ Len(features) = 3
    /\ features[1].datetime < features[2].datetime
    /\ features[2].url = features[3].url
    /\ features[1].url # features[2].url
    /\ year(features[1].datetime) = year(features[3].datetime)
    /\ Len(all_urls) = 2

\* C24: a call of run_command starts the command once, gives its caller a
\* result value for every outcome of the command, one that cannot be started
\* included, and the result reports returncode 0 exactly when the command
\* exited with status 0.
C24_RunCommand ==
    result.kind # "none" =>
        /\ cmd_starts = 1
        /\ result.kind = "returned"
        /\ (result.returncode = 0) <=> (cmd.kind = "exit" /\ cmd.status = 0)

\* C29: the polling loop of usgs_test.main makes at most max_attempts (6000)
\* polls; the download threads are started only by the one poll that reports
\* available downloads, after which no poll follows in that run; and when
\* the attempts are used up the loop ends and main goes on to the joins
\* with no thread started.
C29_BoundedPolling ==
    [][ /\ poll_attempt' <= poll_max_attempts
        /\ (main_pc = "poll" /\ main_pc' # "poll" /\ n_downloads' > 0)
              => poll_attempt < poll_max_attempts
        /\ (main_pc' = "poll" /\ main_pc # "poll") => main_pc = "prepare"
        /\ (main_pc' = "download" /\ main_pc # "download")
              => (main_pc = "poll" /\ spawned = 0)
        /\ spawned' > spawned => (main_pc = "download" /\ spawned < n_downloads)
        /\ (main_pc' = "poll" /\ poll_attempt' = poll_max_attempts)
              => (ENABLED PollExhausted)'
        /\ (main_pc = "poll" /\ main_pc' = "download" /\ n_downloads' = 0)
              => (poll_attempt = poll_max_attempts /\ spawned' = 0)
      ]_vars

C29_Witness ==
    /\ main_pc = "joined"
    /\ spawned = 0
    /\ poll_attempt = poll_max_attempts

\* C26: in usgs_test.main the transform runs only when every download
\* thread that was started has ended, and while it runs neither the list
\* of tif files it was given nor a file of the staging directory changes.
C26_DownloadsBeforeTransform ==
    [][ /\ main_pc' \in {"process", "process_existing"}
              => \A t \in Threads : th'[t] \in {"unstarted", "finished"}
        /\ main_pc \in {"process", "process_existing"}
              => (tif_files' = tif_files /\ dir' = dir)
      ]_vars

C26_Witness ==
    /\ main_pc = "process"
    /\ spawned = MaxAvailable
    /\ \A t \in 1..spawned : th[t] = "finished"
    /\ tif_files = TifNames

\* C27: every tif file that main of usgs_test finds in the staging
\* directory at startup, and therefore transforms without downloading, is
\* a completely downloaded file.
C27_ResumeSound ==
    main_pc = "process_existing" => \A n \in tif_files : dir[n] = "full"

\* C23: two downloads of usgs_test that are in flight at the same time never
\* write the same path of the staging directory, as file or as archive member.
C23_DistinctStagingPaths ==
    \A t1, t2 \in Threads :
        (t1 # t2 /\ th[t1] \in {"write", "extract"}
                 /\ th[t2] \in {"write", "extract"})
            => ({fname[t1]} \cup members(fname[t1]))
                 \cap ({fname[t2]} \cup members(fname[t2])) = {}

\* C28: when a run over the item list has ended, by reaching the end of the
\* loop or by an exception, every item of the list has a terminal outcome:
\* skipped, complete or failed.
C28_EveryItemDecided ==
    pc \in {"done", "crashed"} =>
        \A k \in 1..n_items : outcome[k] \in {"skipped", "complete", "failed"}
====
